---------------------------- MODULE Spec2Model ----------------------------
(***************************************************************************)
(* Model of netbox_fix_json.py: the JSON unwrapper unwrap_actual_json and  *)
(* the record-repair workflow fix_netbox_json_field.                       *)
(*                                                                         *)
(* A text (a Python str) is a sequence of characters, each character a     *)
(* one-character TLA+ string; characters that a \uXXXX escape produces and *)
(* that have no place in Alphabet are written "U+xxxx".  json.loads is     *)
(* modelled by a recursive-descent parser that follows the CPython json    *)
(* decoder; it is exact on texts over Alphabet (no '.', 'e', 'E', so no    *)
(* floats; no 'N', 'I', so no NaN/Infinity; no surrogate escapes).         *)
(***************************************************************************)
EXTENDS Integers, Sequences, FiniteSets, TLC

(***************************************************************************)
(* Bounds of the model.                                                    *)
(***************************************************************************)
\* number of records in the record set
NumRecords == 2
\* max_iterations ranges over -1 .. MaxIterBound
MaxIterBound == 3
\* a base value is wrapped as a JSON string up to MaxWrap times
MaxWrap == 3
\* every text over Alphabet of at most MaxTextLen characters is an input
MaxTextLen == 2
\* fix_netbox_json_field is run at most MaxRuns times on the same store
MaxRuns == 2

(***************************************************************************)
(* Python values that the JSON decoder yields (and the store holds).       *)
(***************************************************************************)
None == [t |-> "NoneType"]
JBool(b) == [t |-> "bool", b |-> b]
JNum(n) == [t |-> "int", n |-> n]
JStr(s) == [t |-> "str", s |-> s]
JList(items) == [t |-> "list", items |-> items]
JDict(keys, vals) == [t |-> "dict", keys |-> keys, vals |-> vals]

\* type(v)
TypeOf(v) == v.t

\* isinstance(v, types); bool is a subclass of int in Python
IsInstance(v, types) ==
    \/ TypeOf(v) \in types
    \/ TypeOf(v) = "bool" /\ "int" \in types

\* the default of the parameter expected_types: (list, dict, type(None))
DefaultExpectedTypes == {"list", "dict", "NoneType"}

(***************************************************************************)
(* json.loads: the CPython decoder (json/decoder.py, json/scanner.py).     *)
(***************************************************************************)
QUOTE == "\""
BACKSLASH == "\\"
LF == "\n"

Alphabet == {QUOTE, BACKSLASH, "{", "}", "[", "]", ",", ":", " ",
             "n", "u", "l", "0", "1", "-", "x"}

\* json.decoder.WHITESPACE: ' \t\n\r'
IsWs(c) == c \in {" ", "\t", LF, "\r"}

Digits == {"0", "1", "2", "3", "4", "5", "6", "7", "8", "9"}

DigitVal(c) ==
    CASE c = "0" -> 0 [] c = "1" -> 1 [] c = "2" -> 2 [] c = "3" -> 3
      [] c = "4" -> 4 [] c = "5" -> 5 [] c = "6" -> 6 [] c = "7" -> 7
      [] c = "8" -> 8 [] c = "9" -> 9

HexDigits == Digits \cup {"a", "b", "c", "d", "e", "f", "A", "B", "C", "D", "E", "F"}

HexLower(c) ==
    CASE c = "A" -> "a" [] c = "B" -> "b" [] c = "C" -> "c"
      [] c = "D" -> "d" [] c = "E" -> "e" [] c = "F" -> "f"
      [] OTHER -> c

\* the character with the code point h1h2h3h4 (hexadecimal)
UChar(h1, h2, h3, h4) ==
    LET code == HexLower(h1) \o HexLower(h2) \o HexLower(h3) \o HexLower(h4)
    IN CASE code = "0022" -> QUOTE  [] code = "005c" -> BACKSLASH
         [] code = "007b" -> "{"    [] code = "007d" -> "}"
         [] code = "005b" -> "["    [] code = "005d" -> "]"
         [] code = "002c" -> ","    [] code = "003a" -> ":"
         [] code = "0020" -> " "    [] code = "006e" -> "n"
         [] code = "0075" -> "u"    [] code = "006c" -> "l"
         [] code = "0030" -> "0"    [] code = "0031" -> "1"
         [] code = "002d" -> "-"    [] code = "0078" -> "x"
         [] code = "000a" -> LF     [] code = "0009" -> "\t"
         [] code = "000d" -> "\r"   [] code = "000c" -> "\f"
         [] OTHER -> "U+" \o code

\* characters below U+0020, which a strict decoder refuses inside a string
ControlChars == {UChar("0", "0", a, b) : a \in {"0", "1"}, b \in {HexLower(h) : h \in HexDigits}}

IsControl(c) == c \in ControlChars

\* json.decoder.BACKSLASH: the one-character escapes
IsEscape(c) == c \in {QUOTE, BACKSLASH, "/", "b", "f", "n", "r", "t"}

EscapeChar(c) ==
    CASE c = QUOTE -> QUOTE [] c = BACKSLASH -> BACKSLASH [] c = "/" -> "/"
      [] c = "b" -> UChar("0", "0", "0", "8") [] c = "f" -> "\f"
      [] c = "n" -> LF [] c = "r" -> "\r" [] c = "t" -> "\t"

\* s[i:i+1] with 1-based i: the empty text stands for "past the end"
At(s, i) == IF i \in 1..Len(s) THEN s[i] ELSE ""

\* a scan that raised (StopIteration / JSONDecodeError)
ScanFail == [ok |-> FALSE, val |-> None, end |-> 0]
ScanOk(v, e) == [ok |-> TRUE, val |-> v, end |-> e]

\* WHITESPACE.match(s, i).end()
RECURSIVE SkipWs(_, _)
SkipWs(s, i) == IF IsWs(At(s, i)) THEN SkipWs(s, i + 1) ELSE i

\* the end of the longest run of digits from i
RECURSIVE DigitsEnd(_, _)
DigitsEnd(s, i) == IF At(s, i) \in Digits THEN DigitsEnd(s, i + 1) ELSE i

\* int(s[i:e]) of a run of digits
RECURSIVE DigitsVal(_, _, _, _)
DigitsVal(s, i, e, acc) ==
    IF i >= e THEN acc ELSE DigitsVal(s, i + 1, e, 10 * acc + DigitVal(s[i]))

\* the int of the digits s[d:e], negated when neg
number_value(s, d, e, neg) ==
    ScanOk(JNum(IF neg THEN 0 - DigitsVal(s, d, e, 0) ELSE DigitsVal(s, d, e, 0)), e)

\* (0|[1-9]\d*) at d
number_digits(s, d, neg) ==
    IF At(s, d) \notin Digits THEN ScanFail
    ELSE number_value(s, d, IF At(s, d) = "0" THEN d + 1 ELSE DigitsEnd(s, d), neg)

\* NUMBER_RE = (-?(?:0|[1-9]\d*))(\.\d+)?([eE][-+]?\d+)? matched at i
match_number(s, i) ==
    IF At(s, i) = "-" THEN number_digits(s, i + 1, TRUE) ELSE number_digits(s, i, FALSE)

\* py_scanstring(s, end, strict=True); i is the place after the opening quote
RECURSIVE scanstring(_, _, _)
scanstring(s, i, acc) ==
    CASE At(s, i) = "" -> ScanFail
      [] At(s, i) = QUOTE -> ScanOk(JStr(acc), i + 1)
      [] At(s, i) = BACKSLASH /\ At(s, i + 1) = "u" ->
           IF \A k \in 2..5 : At(s, i + k) \in HexDigits
           THEN scanstring(s, i + 6,
                  Append(acc, UChar(s[i + 2], s[i + 3], s[i + 4], s[i + 5])))
           ELSE ScanFail
      [] At(s, i) = BACKSLASH /\ At(s, i + 1) # "u" ->
           IF IsEscape(At(s, i + 1))
           THEN scanstring(s, i + 2, Append(acc, EscapeChar(At(s, i + 1))))
           ELSE ScanFail
      [] OTHER ->
           IF IsControl(At(s, i)) THEN ScanFail
           ELSE scanstring(s, i + 1, Append(acc, At(s, i)))

\* dict(pairs): a repeated key keeps its first place and takes the last value
DictPut(d, k, v) ==
    IF \E p \in 1..Len(d.keys) : d.keys[p] = k
    THEN LET p == CHOOSE q \in 1..Len(d.keys) : d.keys[q] = k
         IN JDict(d.keys, [d.vals EXCEPT ![p] = v])
    ELSE JDict(Append(d.keys, k), Append(d.vals, v))

RECURSIVE scan_once(_, _)
RECURSIVE array_items(_, _, _)
RECURSIVE object_pairs(_, _, _)

\* JSONArray: after an item, ']' ends the array and ',' brings the next item
array_sep(s, k, acc) ==
    CASE At(s, k) = "]" -> ScanOk(JList(acc), k + 1)
      [] At(s, k) = "," -> array_items(s, SkipWs(s, k + 1), acc)
      [] OTHER -> ScanFail

\* JSONArray: the item r that scan_once gave
array_item(s, r, acc) ==
    IF ~r.ok THEN ScanFail ELSE array_sep(s, SkipWs(s, r.end), Append(acc, r.val))

\* JSONArray: the loop over the items; i is the place of the next item
array_items(s, i, acc) == array_item(s, scan_once(s, i), acc)

\* JSONArray(s_and_end); i is the place after '['
array_open(s, j) ==
    IF At(s, j) = "]" THEN ScanOk(JList(<<>>), j + 1) ELSE array_items(s, j, <<>>)

JSONArray(s, i) == array_open(s, SkipWs(s, i))

\* JSONObject: after ',' a key must follow
object_next_key(s, n, acc) ==
    IF At(s, n) = QUOTE THEN object_pairs(s, n + 1, acc) ELSE ScanFail

\* JSONObject: after a value, '}' ends the object and ',' brings the next pair
object_sep(s, m, acc) ==
    CASE At(s, m) = "}" -> ScanOk(acc, m + 1)
      [] At(s, m) = "," -> object_next_key(s, SkipWs(s, m + 1), acc)
      [] OTHER -> ScanFail

\* JSONObject: the value r that scan_once gave for the key name
object_value(s, r, name, acc) ==
    IF ~r.ok THEN ScanFail
    ELSE object_sep(s, SkipWs(s, r.end), DictPut(acc, name, r.val))

\* JSONObject: ':' must follow the key
object_colon(s, k, name, acc) ==
    IF At(s, k) # ":" THEN ScanFail
    ELSE object_value(s, scan_once(s, SkipWs(s, k + 1)), name, acc)

\* JSONObject: the key that scanstring gave
object_key(s, key, acc) ==
    IF ~key.ok THEN ScanFail
    ELSE object_colon(s, SkipWs(s, key.end), key.val.s, acc)

\* JSONObject: the loop over the pairs; i is the place after the key's quote
object_pairs(s, i, acc) == object_key(s, scanstring(s, i, <<>>), acc)

\* JSONObject(s_and_end); j is the first place after '{' that is no whitespace
object_open(s, j) ==
    CASE At(s, j) = "}" -> ScanOk(JDict(<<>>, <<>>), j + 1)
      [] At(s, j) = QUOTE -> object_pairs(s, j + 1, JDict(<<>>, <<>>))
      [] OTHER -> ScanFail

JSONObject(s, i) == object_open(s, SkipWs(s, i))

\* the literal word w stands at place i of s
HasWord(s, i, w) == \A k \in 1..Len(w) : At(s, i + k - 1) = w[k]

\* py_make_scanner._scan_once(string, idx)
scan_once(s, i) ==
    CASE At(s, i) = QUOTE -> scanstring(s, i + 1, <<>>)
      [] At(s, i) = "{" -> JSONObject(s, i + 1)
      [] At(s, i) = "[" -> JSONArray(s, i + 1)
      [] HasWord(s, i, <<"n", "u", "l", "l">>) -> ScanOk(None, i + 4)
      [] HasWord(s, i, <<"t", "r", "u", "e">>) -> ScanOk(JBool(TRUE), i + 4)
      [] HasWord(s, i, <<"f", "a", "l", "s", "e">>) -> ScanOk(JBool(FALSE), i + 5)
      [] OTHER -> match_number(s, i)

\* JSONDecoder.decode(s): only whitespace may follow the value
decode_end(s, r) ==
    IF r.ok /\ SkipWs(s, r.end) = Len(s) + 1 THEN r ELSE ScanFail

\* JSONDecoder.decode(s)
decode(s) == decode_end(s, scan_once(s, SkipWs(s, 1)))

\* the outcome of json.loads for the scan r of the whole text
loads_result(r) ==
    IF r.ok THEN [exc |-> "none", val |-> r.val]
    ELSE [exc |-> "JSONDecodeError", val |-> None]

\* json.loads(data): TypeError unless data is a str, JSONDecodeError when the
\* text is no JSON document, else the decoded value
json_loads(data) ==
    IF TypeOf(data) # "str" THEN [exc |-> "TypeError", val |-> None]
    ELSE loads_result(decode(data.s))

(***************************************************************************)
(* Inputs: JSON texts over Alphabet.                                       *)
(***************************************************************************)
\* the JSON text of a str over Alphabet (what encoding it once more gives)
RECURSIVE EscapeText(_)
EscapeText(s) ==
    IF s = <<>> THEN <<>>
    ELSE (IF Head(s) \in {QUOTE, BACKSLASH} THEN <<BACKSLASH, Head(s)>> ELSE <<Head(s)>>)
         \o EscapeText(Tail(s))

WrapText(s) == <<QUOTE>> \o EscapeText(s) \o <<QUOTE>>

\* the text s encoded as a JSON string n times over
RECURSIVE WrapN(_, _)
WrapN(s, n) == IF n <= 0 THEN s ELSE WrapN(WrapText(s), n - 1)

EmptyText == <<>>
DictText == <<"{", "}">>
ListText == <<"[", "]">>
NullText == <<"n", "u", "l", "l">>
NumText == <<"1">>
JunkText == <<"x">>

\* texts of JSON documents whose value is not a str
BaseTexts == {DictText, ListText, NullText, NumText}

\* every text over Alphabet of length n
RECURSIVE TextsOfLen(_)
TextsOfLen(n) ==
    IF n = 0 THEN {<<>>}
    ELSE {Append(s, c) : s \in TextsOfLen(n - 1), c \in Alphabet}

ShortTexts == UNION {TextsOfLen(n) : n \in 0..MaxTextLen}

\* values that are no str
NativeValues == {None, JBool(TRUE), JNum(1), JList(<<>>), JDict(<<>>, <<>>)}

\* the inputs of unwrap_actual_json
UnwrapInputs ==
    {JStr(WrapN(b, n)) : b \in BaseTexts \cup {JunkText, EmptyText}, n \in 0..MaxWrap}
    \cup {JStr(s) : s \in ShortTexts}
    \cup NativeValues

\* the values of expected_type: omitted (None), or a tuple of types
NoExpectedType == [given |-> FALSE, types |-> {}]
ExpectedType(types) == [given |-> TRUE, types |-> types]
ExpectedChoices == {NoExpectedType, ExpectedType(DefaultExpectedTypes), ExpectedType({"dict"})}

\* the default of the parameter max_iterations
DefaultMaxIterations == 10

\* the values of max_iterations (argparse takes any int)
IterChoices == ((0 - 1)..MaxIterBound) \cup {DefaultMaxIterations}

(***************************************************************************)
(* unwrap_actual_json                                                      *)
(***************************************************************************)
\* mutant of found_expected: the test by truth value, "data and not str"
found_expected_truthy(data, expected_type) ==
    \/ expected_type.given /\ IsInstance(data, expected_type.types)
    \/ /\ ~expected_type.given
       /\ ~IsInstance(data, {"str"})
       /\ data \notin {None, JList(<<>>), JDict(<<>>, <<>>), JNum(0), JBool(FALSE)}

\* line 26: the test that ends the loop with success
found_expected(data, expected_type) ==
    \/ expected_type.given /\ IsInstance(data, expected_type.types)
    \/ ~expected_type.given /\ ~IsInstance(data, {"str"})

\* lines 17-18: the locals before the loop; parses counts the calls of
\* json.loads and logged records logging.error of line 23
UnwrapStart(input_str) ==
    [pc |-> "loop", iteration |-> 0, data |-> input_str,
     status |-> FALSE, value |-> None, parses |-> 0, logged |-> FALSE]

\* mutant of unwrap_parsed: a decode failure hands back what was decoded so far
unwrap_parsed_partial(st, r, expected_type) ==
    CASE r.exc = "TypeError" ->
           [st EXCEPT !.pc = "raised", !.parses = @ + 1]
      [] r.exc = "JSONDecodeError" ->
           [st EXCEPT !.pc = "returned", !.status = FALSE, !.value = st.data,
                      !.parses = @ + 1, !.logged = TRUE]
      [] r.exc = "none" /\ found_expected(r.val, expected_type) ->
           [st EXCEPT !.pc = "returned", !.status = TRUE, !.value = r.val,
                      !.data = r.val, !.parses = @ + 1]
      [] OTHER ->
           [st EXCEPT !.iteration = @ + 1, !.data = r.val, !.parses = @ + 1]

\* lines 21-29: the rest of a pass, r being what json.loads(data) gave
unwrap_parsed(st, r, expected_type) ==
    CASE r.exc = "TypeError" ->
           [st EXCEPT !.pc = "raised", !.parses = @ + 1]
      [] r.exc = "JSONDecodeError" ->
           [st EXCEPT !.pc = "returned", !.status = FALSE, !.value = None,
                      !.parses = @ + 1, !.logged = TRUE]
      [] r.exc = "none" /\ found_expected(r.val, expected_type) ->
           [st EXCEPT !.pc = "returned", !.status = TRUE, !.value = r.val,
                      !.data = r.val, !.parses = @ + 1]
      [] OTHER ->
           [st EXCEPT !.iteration = @ + 1, !.data = r.val, !.parses = @ + 1]

\* mutant of unwrap_pass: the loop test is off by one (<=)
unwrap_pass_one_more(st, expected_type, max_iterations) ==
    IF ~(st.iteration <= max_iterations)
    THEN [st EXCEPT !.pc = "returned", !.status = FALSE, !.value = None]
    ELSE unwrap_parsed(st, json_loads(st.data), expected_type)

\* lines 19-31: the loop test and one pass of the body
unwrap_pass(st, expected_type, max_iterations) ==
    IF ~(st.iteration < max_iterations)
    THEN [st EXCEPT !.pc = "returned", !.status = FALSE, !.value = None]
    ELSE unwrap_parsed(st, json_loads(st.data), expected_type)

RECURSIVE unwrap_loop(_, _, _)
unwrap_loop(st, expected_type, max_iterations) ==
    IF st.pc # "loop" THEN st
    ELSE unwrap_loop(unwrap_pass(st, expected_type, max_iterations),
                     expected_type, max_iterations)

\* unwrap_actual_json(input_str, expected_type, max_iterations): the final
\* loop state; (status, value) is the returned pair when pc = "returned",
\* and pc = "raised" when the TypeError of json.loads leaves the function
unwrap_actual_json(input_str, expected_type, max_iterations) ==
    unwrap_loop(UnwrapStart(input_str), expected_type, max_iterations)

(***************************************************************************)
(* State                                                                   *)
(***************************************************************************)
VARIABLES
    store,                \* record -> value of the custom field in the store
    make_changes,         \* parameter make_changes
    replace_empty_string_with_null,
    max_iterations,       \* parameter max_iterations
    pc,                   \* place of fix_netbox_json_field
    idx,                  \* items of the current for loop already taken
    count_evaluated,
    nbobj_with_bad_value,
    nbobj_updated,
    nbobj_not_updated,
    run,                  \* number of calls of fix_netbox_json_field so far
    store0,               \* the store when the current call began
    updates,              \* the calls of nbobj.update of the current call
    unwraps,              \* the calls of unwrap_actual_json of the current call
    finished,             \* what each earlier call that returned gave back
    u_input, u_expected, u_max,   \* arguments of a call of unwrap_actual_json
    u_loop,               \* its loop state
    report                \* the report of __main__ after the current call

wf_vars == <<store, make_changes, replace_empty_string_with_null, max_iterations,
             pc, idx, count_evaluated, nbobj_with_bad_value, nbobj_updated,
             nbobj_not_updated, run, store0, updates, unwraps, finished, report>>
u_vars == <<u_input, u_expected, u_max, u_loop>>
vars == <<wf_vars, u_vars>>

Records == 1..NumRecords

\* recordset = netbox_type.all(): every record of the store, in order
recordset == [i \in 1..NumRecords |-> i]

\* nbobj.custom_fields.get(custom_field_name)
custom_field(nbobj) == store[nbobj]

\* values a JSON custom field of the store can hold
FieldValues ==
    NativeValues
    \cup {JStr(EmptyText), JStr(JunkText), JStr(NumText), JStr(NullText),
          JStr(DictText), JStr(WrapN(ListText, 2)), JStr(WrapN(JunkText, 1))}

(***************************************************************************)
(* fix_netbox_json_field                                                   *)
(***************************************************************************)
\* the values of max_iterations that fix_netbox_json_field is called with
WorkflowIterChoices == {0, 1, MaxIterBound}

\* mutant of has_bad_value: the test for an absent value is by truth value
\* ("if not json_value or isinstance(...)"), so an empty str is skipped
has_bad_value_truthy(json_value, expected_types) ==
    ~(json_value \in {None, JStr(EmptyText)} \/ IsInstance(json_value, expected_types))

\* line 50 negated: the record needs repair
has_bad_value(json_value, expected_types) ==
    ~(json_value = None \/ IsInstance(json_value, expected_types))

\* line 63: unwrap_actual_json is called without expected_type
unwrap_expected_type == NoExpectedType

\* line 63: what the call of unwrap_actual_json gives, r its final loop state
unwrapped_value(r) ==
    [unwrapped |-> TRUE, raised |-> r.pc = "raised", status |-> r.status,
     fixed_value |-> r.value, parses |-> r.parses]

\* mutant of fix_determination: the empty string is not singled out
fix_determination_always_unwraps(json_value, replace_empty, max_iter) ==
    unwrapped_value(unwrap_actual_json(json_value, unwrap_expected_type, max_iter))

\* lines 58-63: the fix determination of one candidate; unwrapped tells
\* whether unwrap_actual_json was called
fix_determination(json_value, replace_empty, max_iter) ==
    IF json_value = JStr(EmptyText) /\ replace_empty
    THEN [unwrapped |-> FALSE, raised |-> FALSE, status |-> TRUE, fixed_value |-> None,
          parses |-> 0]
    ELSE unwrapped_value(unwrap_actual_json(json_value, unwrap_expected_type, max_iter))

\* the candidate of the current pass of the second loop, and its determination
candidate == nbobj_with_bad_value[idx + 1]
determination ==
    fix_determination(custom_field(candidate), replace_empty_string_with_null,
                      max_iterations)

\* the record of a call of unwrap_actual_json made for nbobj
UnwrapCall(nbobj, d) ==
    [nbobj |-> nbobj, input |-> custom_field(nbobj), status |-> d.status,
     value |-> d.fixed_value, raised |-> d.raised, parses |-> d.parses]
LogUnwrap(nbobj, d) == IF d.unwrapped THEN Append(unwraps, UnwrapCall(nbobj, d)) ELSE unwraps

\* the parameter custom_field_name: the name of the custom field to repair
custom_field_name == "custom_field_name"

\* line 71: the custom fields that the update carries, {custom_field_name: value}
update_payload(value) == [f \in {custom_field_name} |-> value]

\* the record of a call nbobj.update({'custom_fields': {custom_field_name: value}})
UpdateCall(nbobj, value, accepted) ==
    [nbobj |-> nbobj, value |-> value, accepted |-> accepted,
     payload |-> update_payload(value)]

(***************************************************************************)
(* __main__: the report after the call of fix_netbox_json_field            *)
(***************************************************************************)
\* str(item): the text that stands for a record
StrOf(nbobj) == [str_of |-> nbobj]

\* the separator of the listings, '\n  '
Separator == [sep |-> "\n  "]

\* separator.join(items): the items with the separator between them
RECURSIVE join(_, _)
join(separator, items) ==
    IF Len(items) <= 1 THEN items
    ELSE <<Head(items), separator>> \o join(separator, Tail(items))

\* line 160: '\n  '.join([str(item) for item in objects_updated])
updated_flattened(objects_updated) ==
    join(Separator, [i \in 1..Len(objects_updated) |-> StrOf(objects_updated[i])])

\* line 161: '\n  '.join([str(item) for ite in objects_not_updated]): the loop
\* name is ite, and item is bound nowhere in that scope (the item of line 160
\* is local to its own comprehension), so the first pass raises NameError; an
\* empty objects_not_updated gives the empty text
not_updated_flattened(objects_not_updated) ==
    IF Len(objects_not_updated) = 0
    THEN [raised |-> FALSE, text |-> join(Separator, <<>>)]
    ELSE [raised |-> TRUE, text |-> <<>>]

\* no report yet: pc is "none", then "printed" or "raised" (NameError)
ReportStart == [pc |-> "none", verbose |-> FALSE, printed |-> <<>>]

Init ==
    /\ store \in [Records -> FieldValues]
    /\ make_changes \in BOOLEAN
    /\ replace_empty_string_with_null \in BOOLEAN
    /\ max_iterations \in WorkflowIterChoices
    /\ pc = "idle"
    /\ idx = 0
    /\ count_evaluated = 0
    /\ nbobj_with_bad_value = <<>>
    /\ nbobj_updated = <<>>
    /\ nbobj_not_updated = <<>>
    /\ run = 0
    /\ store0 = store
    /\ updates = <<>>
    /\ unwraps = <<>>
    /\ finished = <<>>
    /\ u_input = None
    /\ u_expected = NoExpectedType
    /\ u_max = 0
    /\ u_loop = UnwrapStart(None)
    /\ report = ReportStart

params == <<make_changes, replace_empty_string_with_null, max_iterations>>

\* lines 157-158 and 41-46: the tool is run (again) on the store, once the run
\* before it has ended (with its report, or by an error)
Call ==
    /\ pc \in {"idle", "returned", "raised"}
    /\ pc = "returned" => report.pc # "none"
    /\ run < MaxRuns
    /\ run' = run + 1
    /\ pc' = "classify"
    /\ idx' = 0
    /\ count_evaluated' = 0
    /\ nbobj_with_bad_value' = <<>>
    /\ nbobj_updated' = <<>>
    /\ nbobj_not_updated' = <<>>
    /\ store0' = store
    /\ updates' = <<>>
    /\ unwraps' = <<>>
    /\ report' = ReportStart
    /\ UNCHANGED <<store, params, finished, u_vars>>

\* lines 47-51: a pass of the first loop that skips the record
ClassifySkip ==
    /\ pc = "classify"
    /\ idx < Len(recordset)
    /\ ~has_bad_value(custom_field(recordset[idx + 1]), DefaultExpectedTypes)
    /\ idx' = idx + 1
    /\ count_evaluated' = count_evaluated + 1
    /\ UNCHANGED <<store, params, pc, nbobj_with_bad_value, nbobj_updated,
                   nbobj_not_updated, run, store0, updates, unwraps, finished, u_vars, report>>

\* mutant of ClassifyBad: the record is put at the front of the list
\* (insert(0, nbobj)) in place of append
ClassifyBad_Prepends ==
    /\ pc = "classify"
    /\ idx < Len(recordset)
    /\ has_bad_value(custom_field(recordset[idx + 1]), DefaultExpectedTypes)
    /\ idx' = idx + 1
    /\ count_evaluated' = count_evaluated + 1
    /\ nbobj_with_bad_value' = <<recordset[idx + 1]>> \o nbobj_with_bad_value
    /\ UNCHANGED <<store, params, pc, nbobj_updated, nbobj_not_updated, run,
                   store0, updates, unwraps, finished, u_vars, report>>

\* lines 47-54: a pass of the first loop that finds a bad value
ClassifyBad ==
    /\ pc = "classify"
    /\ idx < Len(recordset)
    /\ has_bad_value(custom_field(recordset[idx + 1]), DefaultExpectedTypes)
    /\ idx' = idx + 1
    /\ count_evaluated' = count_evaluated + 1
    /\ nbobj_with_bad_value' = Append(nbobj_with_bad_value, recordset[idx + 1])
    /\ UNCHANGED <<store, params, pc, nbobj_updated, nbobj_not_updated, run,
                   store0, updates, unwraps, finished, u_vars, report>>

\* line 55: the first loop is over
ClassifyDone ==
    /\ pc = "classify"
    /\ idx = Len(recordset)
    /\ pc' = "repair"
    /\ idx' = 0
    /\ UNCHANGED <<store, params, count_evaluated, nbobj_with_bad_value,
                   nbobj_updated, nbobj_not_updated, run, store0, updates, unwraps,
                   finished, u_vars, report>>

\* line 63: json.loads raises TypeError inside unwrap_actual_json; nothing
\* catches it, so it leaves fix_netbox_json_field
RepairRaise ==
    /\ pc = "repair"
    /\ idx < Len(nbobj_with_bad_value)
    /\ determination.raised
    /\ pc' = "raised"
    /\ unwraps' = LogUnwrap(candidate, determination)
    /\ UNCHANGED <<store, params, idx, count_evaluated, nbobj_with_bad_value,
                   nbobj_updated, nbobj_not_updated, run, store0, updates,
                   finished, u_vars, report>>

\* mutant of RepairNotFixed: the continue of line 67 is missing, so the pass
\* goes on to line 77
RepairNotFixed_NoContinue ==
    /\ pc = "repair"
    /\ idx < Len(nbobj_with_bad_value)
    /\ ~determination.raised
    /\ ~determination.status
    /\ nbobj_not_updated' = Append(nbobj_not_updated, candidate)
    /\ nbobj_updated' = Append(nbobj_updated, candidate)
    /\ unwraps' = LogUnwrap(candidate, determination)
    /\ idx' = idx + 1
    /\ UNCHANGED <<store, params, pc, count_evaluated, nbobj_with_bad_value,
                   run, store0, updates, finished, u_vars, report>>

\* lines 64-67: the value could not be unwrapped
RepairNotFixed ==
    /\ pc = "repair"
    /\ idx < Len(nbobj_with_bad_value)
    /\ ~determination.raised
    /\ ~determination.status
    /\ nbobj_not_updated' = Append(nbobj_not_updated, candidate)
    /\ unwraps' = LogUnwrap(candidate, determination)
    /\ idx' = idx + 1
    /\ UNCHANGED <<store, params, pc, count_evaluated, nbobj_with_bad_value,
                   nbobj_updated, run, store0, updates, finished, u_vars, report>>

\* mutant of RepairDryRun: the update is sent although make_changes is false
RepairDryRun_Writes ==
    /\ pc = "repair"
    /\ idx < Len(nbobj_with_bad_value)
    /\ ~determination.raised
    /\ determination.status
    /\ ~make_changes
    /\ store' = [store EXCEPT ![candidate] = determination.fixed_value]
    /\ updates' = Append(updates, UpdateCall(candidate, determination.fixed_value, TRUE))
    /\ nbobj_updated' = Append(nbobj_updated, candidate)
    /\ unwraps' = LogUnwrap(candidate, determination)
    /\ idx' = idx + 1
    /\ UNCHANGED <<params, pc, count_evaluated, nbobj_with_bad_value,
                   nbobj_not_updated, run, store0, finished, u_vars, report>>

\* lines 76-77: dry run, the record counts as updated
RepairDryRun ==
    /\ pc = "repair"
    /\ idx < Len(nbobj_with_bad_value)
    /\ ~determination.raised
    /\ determination.status
    /\ ~make_changes
    /\ nbobj_updated' = Append(nbobj_updated, candidate)
    /\ unwraps' = LogUnwrap(candidate, determination)
    /\ idx' = idx + 1
    /\ UNCHANGED <<store, params, pc, count_evaluated, nbobj_with_bad_value,
                   nbobj_not_updated, run, store0, updates, finished, u_vars, report>>

\* lines 68-72: the store takes the update
RepairUpdateAccepted ==
    /\ pc = "repair"
    /\ idx < Len(nbobj_with_bad_value)
    /\ ~determination.raised
    /\ determination.status
    /\ make_changes
    /\ store' = [store EXCEPT ![candidate] = determination.fixed_value]
    /\ updates' = Append(updates, UpdateCall(candidate, determination.fixed_value, TRUE))
    /\ nbobj_updated' = Append(nbobj_updated, candidate)
    /\ unwraps' = LogUnwrap(candidate, determination)
    /\ idx' = idx + 1
    /\ UNCHANGED <<params, pc, count_evaluated, nbobj_with_bad_value,
                   nbobj_not_updated, run, store0, finished, u_vars, report>>

\* mutant of RepairUpdateRejected: the record is counted as updated before the
\* update is sent, and as not updated when it is refused
RepairUpdateRejected_CountedFirst ==
    /\ pc = "repair"
    /\ idx < Len(nbobj_with_bad_value)
    /\ ~determination.raised
    /\ determination.status
    /\ make_changes
    /\ updates' = Append(updates, UpdateCall(candidate, determination.fixed_value, FALSE))
    /\ nbobj_updated' = Append(nbobj_updated, candidate)
    /\ nbobj_not_updated' = Append(nbobj_not_updated, candidate)
    /\ unwraps' = LogUnwrap(candidate, determination)
    /\ idx' = idx + 1
    /\ UNCHANGED <<store, params, pc, count_evaluated, nbobj_with_bad_value,
                   run, store0, finished, u_vars, report>>

\* mutant of RepairUpdateRejected: the update is sent once more after the
\* store has refused it
RepairUpdateRejected_Retries ==
    /\ pc = "repair"
    /\ idx < Len(nbobj_with_bad_value)
    /\ ~determination.raised
    /\ determination.status
    /\ make_changes
    /\ updates' = Append(Append(updates,
                                UpdateCall(candidate, determination.fixed_value, FALSE)),
                         UpdateCall(candidate, determination.fixed_value, FALSE))
    /\ nbobj_not_updated' = Append(nbobj_not_updated, candidate)
    /\ unwraps' = LogUnwrap(candidate, determination)
    /\ idx' = idx + 1
    /\ UNCHANGED <<store, params, pc, count_evaluated, nbobj_with_bad_value,
                   nbobj_updated, run, store0, finished, u_vars, report>>

\* lines 68-75: the store refuses the update (pynetbox RequestError)
RepairUpdateRejected ==
    /\ pc = "repair"
    /\ idx < Len(nbobj_with_bad_value)
    /\ ~determination.raised
    /\ determination.status
    /\ make_changes
    /\ updates' = Append(updates, UpdateCall(candidate, determination.fixed_value, FALSE))
    /\ nbobj_not_updated' = Append(nbobj_not_updated, candidate)
    /\ unwraps' = LogUnwrap(candidate, determination)
    /\ idx' = idx + 1
    /\ UNCHANGED <<store, params, pc, count_evaluated, nbobj_with_bad_value,
                   nbobj_updated, run, store0, finished, u_vars, report>>

\* line 78: return nbobj_updated, nbobj_not_updated
Return ==
    /\ pc = "repair"
    /\ idx = Len(nbobj_with_bad_value)
    /\ pc' = "returned"
    /\ finished' = Append(finished,
                     [run |-> run, updated |-> nbobj_updated,
                      not_updated |-> nbobj_not_updated,
                      candidates |-> nbobj_with_bad_value, updates |-> updates])
    /\ UNCHANGED <<store, params, idx, count_evaluated, nbobj_with_bad_value,
                   nbobj_updated, nbobj_not_updated, run, store0, updates, unwraps,
                   u_vars, report>>

\* lines 159-163: args.verbose, both listings are made and printed
ReportVerbose ==
    /\ pc = "returned"
    /\ report.pc = "none"
    /\ ~not_updated_flattened(nbobj_not_updated).raised
    /\ report' = [pc |-> "printed", verbose |-> TRUE,
                  printed |-> <<[label |-> "Objects Updated:",
                                 body |-> updated_flattened(nbobj_updated)],
                                [label |-> "Objects Not Updated:",
                                 body |-> not_updated_flattened(nbobj_not_updated).text]>>]
    /\ UNCHANGED <<store, params, pc, idx, count_evaluated, nbobj_with_bad_value,
                   nbobj_updated, nbobj_not_updated, run, store0, updates, unwraps,
                   finished, u_vars>>

\* lines 159-161: args.verbose, line 161 raises NameError before anything is
\* printed
ReportNameError ==
    /\ pc = "returned"
    /\ report.pc = "none"
    /\ not_updated_flattened(nbobj_not_updated).raised
    /\ report' = [pc |-> "raised", verbose |-> TRUE, printed |-> <<>>]
    /\ UNCHANGED <<store, params, pc, idx, count_evaluated, nbobj_with_bad_value,
                   nbobj_updated, nbobj_not_updated, run, store0, updates, unwraps,
                   finished, u_vars>>

\* lines 164-166: not args.verbose, the two counts are printed
ReportCounts ==
    /\ pc = "returned"
    /\ report.pc = "none"
    /\ report' = [pc |-> "printed", verbose |-> FALSE,
                  printed |-> <<[label |-> "Object Count Updated:",
                                 body |-> Len(nbobj_updated)],
                                [label |-> "Objects Count Not Updated:",
                                 body |-> Len(nbobj_not_updated)]>>]
    /\ UNCHANGED <<store, params, pc, idx, count_evaluated, nbobj_with_bad_value,
                   nbobj_updated, nbobj_not_updated, run, store0, updates, unwraps,
                   finished, u_vars>>

Next ==
    \/ Call
    \/ ClassifySkip
    \/ ClassifyBad
    \/ ClassifyDone
    \/ RepairRaise
    \/ RepairNotFixed
    \/ RepairDryRun
    \/ RepairUpdateAccepted
    \/ RepairUpdateRejected
    \/ Return
    \/ ReportVerbose
    \/ ReportNameError
    \/ ReportCounts

Spec == Init /\ [][Next]_vars

(***************************************************************************)
(* unwrap_actual_json on its own, one pass of the loop at a time           *)
(***************************************************************************)
InitUnwrap ==
    /\ u_input \in UnwrapInputs
    /\ u_expected \in ExpectedChoices
    /\ u_max \in IterChoices
    /\ u_loop = UnwrapStart(u_input)
    /\ store = [r \in Records |-> None]
    /\ make_changes = FALSE
    /\ replace_empty_string_with_null = FALSE
    /\ max_iterations = 0
    /\ pc = "idle"
    /\ idx = 0
    /\ count_evaluated = 0
    /\ nbobj_with_bad_value = <<>>
    /\ nbobj_updated = <<>>
    /\ nbobj_not_updated = <<>>
    /\ run = 0
    /\ store0 = store
    /\ updates = <<>>
    /\ unwraps = <<>>
    /\ finished = <<>>
    /\ report = ReportStart

u_next == unwrap_pass(u_loop, u_expected, u_max)

\* lines 19, 31: the loop test fails, return False, None
UnwrapLimit ==
    /\ u_loop.pc = "loop"
    /\ ~(u_loop.iteration < u_max)
    /\ u_loop' = u_next
    /\ UNCHANGED <<u_input, u_expected, u_max, wf_vars>>

\* line 21: json.loads raises TypeError (data is no str)
UnwrapTypeError ==
    /\ u_loop.pc = "loop"
    /\ u_loop.iteration < u_max
    /\ u_next.pc = "raised"
    /\ u_loop' = u_next
    /\ UNCHANGED <<u_input, u_expected, u_max, wf_vars>>

\* lines 21-25: json.loads raises JSONDecodeError, return False, None
UnwrapDecodeError ==
    /\ u_loop.pc = "loop"
    /\ u_loop.iteration < u_max
    /\ u_next.pc = "returned"
    /\ u_next.logged
    /\ u_loop' = u_next
    /\ UNCHANGED <<u_input, u_expected, u_max, wf_vars>>

\* lines 21, 26-28: the expected type is found, return True, data
UnwrapFound ==
    /\ u_loop.pc = "loop"
    /\ u_loop.iteration < u_max
    /\ u_next.pc = "returned"
    /\ u_next.status
    /\ u_loop' = u_next
    /\ UNCHANGED <<u_input, u_expected, u_max, wf_vars>>

\* lines 21, 26, 29: the parsed value is not the expected one, iteration += 1
UnwrapAgain ==
    /\ u_loop.pc = "loop"
    /\ u_loop.iteration < u_max
    /\ u_next.pc = "loop"
    /\ u_loop' = u_next
    /\ UNCHANGED <<u_input, u_expected, u_max, wf_vars>>

NextUnwrap ==
    \/ UnwrapLimit
    \/ UnwrapTypeError
    \/ UnwrapDecodeError
    \/ UnwrapFound
    \/ UnwrapAgain

SpecUnwrap == InitUnwrap /\ [][NextUnwrap]_vars

(***************************************************************************)
(* Reference for the claims: the chain of successive parses of an input    *)
(***************************************************************************)
ChainFail == [ok |-> FALSE, val |-> None]

\* one more parse of the link c of the chain
ParseLink(c) ==
    IF c.ok /\ TypeOf(c.val) = "str" THEN [ok |-> decode(c.val.s).ok, val |-> decode(c.val.s).val]
    ELSE ChainFail

\* the value that k successive parses of input give, if all of them succeed
\* and each but the last gives a str
RECURSIVE Parsed(_, _)
Parsed(input, k) ==
    IF k = 0 THEN [ok |-> TRUE, val |-> input] ELSE ParseLink(Parsed(input, k - 1))

\* the k-th parse is the first to give a value that is no str
ReachesAt(input, k) == Parsed(input, k).ok /\ TypeOf(Parsed(input, k).val) # "str"

\* the k-th parse is the one that fails to decode
FailsAt(input, k) ==
    /\ k >= 1
    /\ Parsed(input, k - 1).ok
    /\ TypeOf(Parsed(input, k - 1).val) = "str"
    /\ ~Parsed(input, k).ok

\* the pair (status, value) the chain gives within max parses
RefUnwrap(input, max) ==
    IF \E k \in 1..max : ReachesAt(input, k)
    THEN <<TRUE, Parsed(input, CHOOSE k \in 1..max : ReachesAt(input, k)).val>>
    ELSE <<FALSE, None>>

InSeq(x, seq) == \E i \in 1..Len(seq) : seq[i] = x
CountIn(x, seq) == Cardinality({i \in 1..Len(seq) : seq[i] = x})

\* the call of unwrap_actual_json has returned (status, value)
Returned == u_loop.pc = "returned"
Result == <<u_loop.status, u_loop.value>>

(***************************************************************************)
(* Claims about unwrap_actual_json (checked under SpecUnwrap)              *)
(***************************************************************************)
\* C6: without expected_type, for every input str and every max_iterations,
\* unwrap_actual_json returns (True, v) exactly when successive parses reach,
\* with no decode failure and within max_iterations parses, a first value v
\* that is no str, and (False, None) otherwise; it never raises.
C6_UnwrapMatchesReference ==
    (TypeOf(u_input) = "str" /\ ~u_expected.given) =>
        /\ u_loop.pc # "raised"
        /\ Returned => Result = RefUnwrap(u_input, u_max)

\* C6 witness: the doubly encoded null with max_iterations = 10 has returned
\* (True, None) after two parses
C6_Witness ==
    /\ u_input = JStr(WrapText(NullText))
    /\ ~u_expected.given
    /\ u_max = DefaultMaxIterations
    /\ Returned
    /\ Result = <<TRUE, None>>
    /\ u_loop.parses = 2

\* the texts of BaseTexts with the values they stand for
BaseValues ==
    {<<DictText, JDict(<<>>, <<>>)>>, <<ListText, JList(<<>>)>>,
     <<NullText, None>>, <<NumText, JNum(1)>>}

\* the input needs exactly n parses to reach the value of the base b
EncodedTimes(b, n) == u_input = JStr(WrapN(b[1], n - 1))

\* C7 (as claimed): a value that is no str, encoded N times so that N parses
\* reach it, unwraps when N < max_iterations and fails when N >= max_iterations.
C7_AsClaimed ==
    \A b \in BaseValues, n \in 1..(MaxWrap + 1) :
        (EncodedTimes(b, n) /\ ~u_expected.given /\ Returned) =>
            u_loop.status = (n < u_max)

\* C7 (amended): a value that is no str, encoded N >= 1 times so that N parses
\* reach it, unwraps to that value when N <= max_iterations and gives
\* (False, None) when N > max_iterations.
C7_IterationBound ==
    \A b \in BaseValues, n \in 1..(MaxWrap + 1) :
        (EncodedTimes(b, n) /\ ~u_expected.given) =>
            /\ u_loop.pc # "raised"
            /\ Returned => Result = (IF n <= u_max THEN <<TRUE, b[2]>> ELSE <<FALSE, None>>)

\* C7 witness: an object encoded as often as max_iterations allows has unwrapped
C7_Witness ==
    /\ \E n \in 2..(MaxWrap + 1) : EncodedTimes(<<DictText, JDict(<<>>, <<>>)>>, n) /\ u_max = n
    /\ ~u_expected.given
    /\ Returned
    /\ Result = <<TRUE, JDict(<<>>, <<>>)>>

\* C8: a decode failure ends the call: an input that is no JSON at the first
\* parse gives (False, None) whatever max_iterations is, and a failure at a
\* later parse gives (False, None) at once, with no parse after the failing
\* one and no partly decoded value.
C8_DecodeFailureTerminal ==
    /\ (TypeOf(u_input) = "str" /\ FailsAt(u_input, 1) /\ Returned) =>
           /\ Result = <<FALSE, None>>
           /\ u_loop.parses <= 1
           /\ u_max >= 1 => (u_loop.logged /\ u_loop.parses = 1)
    /\ (Returned /\ u_loop.logged) =>
           /\ Result = <<FALSE, None>>
           /\ FailsAt(u_input, u_loop.parses)
    /\ \A k \in 1..(MaxWrap + 2) :
           (~u_expected.given /\ FailsAt(u_input, k) /\ k <= u_max /\ Returned) =>
               /\ Result = <<FALSE, None>>
               /\ u_loop.logged
               /\ u_loop.parses = k

\* C8 witness: a text that decodes once to a str that is no JSON has failed at
\* the second parse
C8_Witness ==
    /\ u_input = JStr(WrapText(JunkText))
    /\ u_max > 2
    /\ Returned
    /\ u_loop.logged
    /\ u_loop.parses = 2
    /\ Result = <<FALSE, None>>

\* C13 (as claimed): unwrap_actual_json is total: for every input (a str or
\* any other JSON value), every expected_type (given or not) and every
\* max_iterations the call returns a pair (status, value) and never raises;
\* when status is False the value is None, and when expected_type is given a
\* value returned with status True is of that type (a parse that gives a value
\* that is no str and not of the expected type ends in (False, None)).
C13_Total ==
    /\ u_loop.pc # "raised"
    /\ (Returned /\ ~u_loop.status) => u_loop.value = None
    /\ (Returned /\ u_loop.status /\ u_expected.given) =>
           IsInstance(u_loop.value, u_expected.types)
    /\ (Returned /\ u_loop.status /\ ~u_expected.given) =>
           ~IsInstance(u_loop.value, {"str"})

\* the loop of unwrap_actual_json is bounded: at most max_iterations calls of
\* json.loads are made; while the loop runs every pass so far has added one to
\* iteration and has put the parsed value in data; and with max_iterations <= 0
\* the call ends with no parse and (False, None)
LoopBounded ==
    /\ u_loop.parses <= (IF u_max > 0 THEN u_max ELSE 0)
    /\ u_loop.pc = "loop" =>
           /\ u_loop.iteration = u_loop.parses
           /\ Parsed(u_input, u_loop.parses).ok
           /\ u_loop.data = Parsed(u_input, u_loop.parses).val
    /\ (u_max <= 0 /\ u_loop.pc # "loop") =>
           /\ Returned
           /\ Result = <<FALSE, None>>
           /\ u_loop.parses = 0

\* C14 (as claimed): for every input and every max_iterations the loop ends
\* after at most max_iterations parses (every pass that does not end the call
\* adds one to iteration and puts the parsed value in data), and the call ends
\* by returning; with max_iterations <= 0 no parse is made and the result is
\* (False, None).
C14_Terminates ==
    /\ LoopBounded
    /\ u_loop.pc \in {"loop", "returned"}

(***************************************************************************)
(* Claims about fix_netbox_json_field (checked under Spec)                 *)
(***************************************************************************)
\* a value that is present and whose type is none of list, dict, NoneType
NeedsRepair(v) == TypeOf(v) \notin {"list", "dict", "NoneType"}

\* the records that were candidates when the current call began
Candidates == {r \in Records : NeedsRepair(store0[r])}

\* the second loop has dealt with the record in the current call
Processed(r) == InSeq(r, nbobj_updated) \/ InSeq(r, nbobj_not_updated)

UnwrapsOf(r) == {i \in 1..Len(unwraps) : unwraps[i].nbobj = r}
UpdatesOf(r) == {i \in 1..Len(updates) : updates[i].nbobj = r}

\* every candidate is in exactly one bucket, once, and nothing else is in one
Partitioned ==
    /\ \A r \in Records :
           CountIn(r, nbobj_updated) + CountIn(r, nbobj_not_updated)
               = (IF r \in Candidates THEN 1 ELSE 0)
    /\ Len(nbobj_updated) + Len(nbobj_not_updated) = Cardinality(Candidates)
    /\ Len(nbobj_with_bad_value) = Cardinality(Candidates)

\* C1 (as claimed): a failure on one candidate (a value that cannot be decoded,
\* the iteration limit, a refused write), whatever the candidate's value (a
\* str, a number or a boolean), never aborts the batch: no error leaves the
\* repair loop and the candidates after the failing one are processed.
C1_FailureNeverAborts ==
    /\ pc # "raised"
    /\ pc = "returned" => \A r \in Candidates : Processed(r)

\* C2: when a call of fix_netbox_json_field returns, every candidate is in
\* exactly one of updated / not_updated, once, no other record is in either,
\* and |updated| + |not_updated| = |candidates|, in dry run and in apply mode.
C2_PartitionComplete == pc = "returned" => Partitioned

\* C2 witness: a call in apply mode has returned with a record in each bucket
C2_Witness ==
    /\ pc = "returned"
    /\ make_changes
    /\ Len(nbobj_updated) >= 1
    /\ Len(nbobj_not_updated) >= 1

\* C3 (as claimed): after a first call in apply mode, every record that the
\* first call fixed and wrote (the store accepting the write) is no candidate
\* of the second call.
C3_SecondRunNoCandidates ==
    (run = 2 /\ make_changes /\ Len(finished) >= 1 /\ pc \in {"repair", "returned", "raised"}) =>
        \A i \in 1..Len(finished[1].updates) :
            (finished[1].run = 1 /\ finished[1].updates[i].accepted) =>
                ~InSeq(finished[1].updates[i].nbobj, nbobj_with_bad_value)

\* C4 (as claimed): a candidate counts as fixed only when decoding reaches a
\* list, a dict or None, so every value written to the store is one of these.
C4_WritesOnlyExpectedTypes ==
    /\ \A i \in 1..Len(updates) : ~NeedsRepair(updates[i].value)
    /\ \A i \in 1..Len(unwraps) : unwraps[i].status => ~NeedsRepair(unwraps[i].value)

\* C5: in a dry run no update is sent, every field value of the store stays
\* as it was, and every candidate whose unwrap succeeds is in updated and
\* every candidate whose unwrap fails is in not_updated.
C5_DryRunLeavesStore ==
    ~make_changes =>
        /\ updates = <<>>
        /\ store = store0
        /\ \A i \in 1..Len(finished) : finished[i].updates = <<>>
        /\ \A i \in 1..Len(unwraps) :
               /\ unwraps[i].status = RefUnwrap(unwraps[i].input, max_iterations)[1]
                      \/ unwraps[i].raised
               /\ unwraps[i].status =>
                      InSeq(unwraps[i].nbobj, nbobj_updated)
                          /\ ~InSeq(unwraps[i].nbobj, nbobj_not_updated)
               /\ (~unwraps[i].status /\ ~unwraps[i].raised) =>
                      InSeq(unwraps[i].nbobj, nbobj_not_updated)
                          /\ ~InSeq(unwraps[i].nbobj, nbobj_updated)
        /\ pc = "returned" => \A r \in Candidates : Processed(r)

\* C5 witness: a dry run over one candidate that unwraps and one that does not
\* has returned with one record in each bucket
C5_Witness ==
    /\ ~make_changes
    /\ pc = "returned"
    /\ Len(unwraps) = 2
    /\ unwraps[1].status
    /\ ~unwraps[2].status
    /\ Len(nbobj_updated) = 1
    /\ Len(nbobj_not_updated) = 1
    /\ updates = <<>>

\* the value the fix determination is to give for the raw value v
ExpectedFix(v) ==
    IF v = JStr(EmptyText) /\ replace_empty_string_with_null THEN None
    ELSE RefUnwrap(v, max_iterations)[2]

\* C9: in apply mode, a candidate whose write the store refuses is in
\* not_updated and not in updated and its stored value stays as it was, and
\* the candidates after it are processed; a candidate whose write the store
\* takes is in updated and its stored value is the fixed value.
C9_TransportRejection ==
    /\ updates # <<>> => make_changes
    /\ \A i \in 1..Len(updates) :
           /\ updates[i].value = ExpectedFix(store0[updates[i].nbobj])
           /\ Cardinality(UpdatesOf(updates[i].nbobj)) = 1
           /\ updates[i].accepted =>
                  /\ InSeq(updates[i].nbobj, nbobj_updated)
                  /\ ~InSeq(updates[i].nbobj, nbobj_not_updated)
                  /\ store[updates[i].nbobj] = updates[i].value
           /\ ~updates[i].accepted =>
                  /\ InSeq(updates[i].nbobj, nbobj_not_updated)
                  /\ ~InSeq(updates[i].nbobj, nbobj_updated)
                  /\ store[updates[i].nbobj] = store0[updates[i].nbobj]
    /\ pc = "raised" => (unwraps # <<>> /\ unwraps[Len(unwraps)].raised)
    /\ pc = "returned" => \A r \in Candidates : Processed(r)

\* C9 witness: the store has refused the write of the first candidate and
\* taken that of the second, and the call has returned
C9_Witness ==
    /\ pc = "returned"
    /\ Len(updates) = 2
    /\ ~updates[1].accepted
    /\ updates[2].accepted
    /\ nbobj_not_updated = <<updates[1].nbobj>>
    /\ nbobj_updated = <<updates[2].nbobj>>
    /\ store[updates[1].nbobj] = store0[updates[1].nbobj]
    /\ store[updates[2].nbobj] # store0[updates[2].nbobj]

\* the record held the empty string when the call began and has been processed
EmptyProcessed(r) == store0[r] = JStr(EmptyText) /\ Processed(r)

\* C10 (as claimed): for a candidate whose raw value is the empty string: with
\* replace_empty_string_with_null the fixed value is None, the unwrapper is not
\* called and the record is placed in updated (in apply mode None is the value
\* written); without the flag the decode fails at once, the record is in
\* not_updated and nothing is written for it.
C10_AsClaimed ==
    /\ \A r \in Records :
           (EmptyProcessed(r) /\ replace_empty_string_with_null) =>
               /\ UnwrapsOf(r) = {}
               /\ InSeq(r, nbobj_updated)
               /\ \A i \in UpdatesOf(r) : updates[i].value = None
               /\ make_changes => UpdatesOf(r) # {}
    /\ \A r \in Records :
           (EmptyProcessed(r) /\ ~replace_empty_string_with_null) =>
               /\ \E i \in UnwrapsOf(r) : ~unwraps[i].status /\ unwraps[i].parses <= 1
               /\ InSeq(r, nbobj_not_updated)
               /\ UpdatesOf(r) = {}

\* C10 (amended): for a candidate whose raw value is the empty string: with
\* replace_empty_string_with_null the unwrapper is not called and the fixed
\* value is None; in a dry run the record is in updated, in apply mode None is
\* the value written and the record is in updated when the store takes the
\* write and in not_updated when it refuses it.  Without the flag the unwrapper
\* fails at once (at the first parse, or with no parse when max_iterations is
\* 0), the record is in not_updated and nothing is written for it.
C10_EmptyString ==
    /\ \A r \in Records :
           (EmptyProcessed(r) /\ replace_empty_string_with_null) =>
               /\ UnwrapsOf(r) = {}
               /\ ~make_changes => (InSeq(r, nbobj_updated) /\ UpdatesOf(r) = {})
               /\ make_changes =>
                      /\ Cardinality(UpdatesOf(r)) = 1
                      /\ \A i \in UpdatesOf(r) :
                             /\ updates[i].value = None
                             /\ updates[i].accepted = InSeq(r, nbobj_updated)
                             /\ updates[i].accepted = ~InSeq(r, nbobj_not_updated)
                             /\ store[r] = (IF updates[i].accepted THEN None ELSE store0[r])
    /\ \A r \in Records :
           (EmptyProcessed(r) /\ ~replace_empty_string_with_null) =>
               /\ Cardinality(UnwrapsOf(r)) = 1
               /\ \A i \in UnwrapsOf(r) :
                      /\ ~unwraps[i].status
                      /\ unwraps[i].value = None
                      /\ unwraps[i].parses = (IF max_iterations >= 1 THEN 1 ELSE 0)
               /\ InSeq(r, nbobj_not_updated)
               /\ ~InSeq(r, nbobj_updated)
               /\ UpdatesOf(r) = {}
               /\ store[r] = store0[r]
    /\ pc = "returned" => \A r \in Records : store0[r] = JStr(EmptyText) => Processed(r)

\* C10 witness: in apply mode with the flag, None has been written for a
\* record that held the empty string, and the record is in updated
C10_Witness ==
    /\ make_changes
    /\ replace_empty_string_with_null
    /\ \E r \in Records :
           /\ EmptyProcessed(r)
           /\ InSeq(r, nbobj_updated)
           /\ store[r] = None
           /\ \E i \in UpdatesOf(r) : updates[i].value = None /\ updates[i].accepted

(***************************************************************************)
(* Classification, write discipline and order (checked under Spec)         *)
(***************************************************************************)
\* the records of the record set that the first loop has taken so far
Evaluated == {recordset[i] : i \in 1..(IF pc = "classify" THEN idx ELSE Len(recordset))}

\* the records that are in the candidate sequence
InBadValue == {r \in Records : InSeq(r, nbobj_with_bad_value)}

\* C11: the first loop makes a record a candidate exactly when its value is
\* present and is no list, dict or None; a record whose value is absent or is
\* a list, a dict or None is never a candidate, is never handed to
\* unwrap_actual_json, is in neither bucket and is never written; and the
\* first loop writes nothing.
C11_Classification ==
    /\ pc # "idle" =>
           /\ InBadValue = Candidates \cap Evaluated
           /\ \A r \in Records : CountIn(r, nbobj_with_bad_value) <= 1
    /\ pc = "classify" =>
           /\ store = store0
           /\ updates = <<>>
           /\ unwraps = <<>>
           /\ nbobj_updated = <<>>
           /\ nbobj_not_updated = <<>>
           /\ count_evaluated = idx
    /\ \A r \in Records :
           ~NeedsRepair(store0[r]) =>
               /\ ~InSeq(r, nbobj_with_bad_value)
               /\ UnwrapsOf(r) = {}
               /\ UpdatesOf(r) = {}
               /\ ~Processed(r)
               /\ store[r] = store0[r]

\* C11 witness: a call in apply mode has returned; the first record held a
\* list and was left alone, the second held a str, was the only candidate and
\* was written
C11_Witness ==
    /\ pc = "returned"
    /\ make_changes
    /\ store0[1] = JList(<<>>)
    /\ TypeOf(store0[2]) = "str"
    /\ nbobj_with_bad_value = <<2>>
    /\ UpdatesOf(1) = {}
    /\ UpdatesOf(2) # {}
    /\ store[1] = store0[1]
    /\ store[2] # store0[2]

\* the fix determination of the candidate r succeeded in the current call and
\* gave the value v: the empty string with replace_empty_string_with_null, or
\* a call of unwrap_actual_json on the raw value (a str) that returned
\* (True, v) within max_iterations parses
FixSucceeded(r, v) ==
    \/ /\ store0[r] = JStr(EmptyText)
       /\ replace_empty_string_with_null
       /\ UnwrapsOf(r) = {}
       /\ v = None
    \/ /\ ~(store0[r] = JStr(EmptyText) /\ replace_empty_string_with_null)
       /\ Cardinality(UnwrapsOf(r)) = 1
       /\ \A j \in UnwrapsOf(r) :
              /\ unwraps[j].input = store0[r]
              /\ unwraps[j].status
              /\ unwraps[j].value = v
              /\ unwraps[j].parses \in 1..max_iterations
              /\ TypeOf(store0[r]) = "str"
              /\ TypeOf(v) # "str"

\* C12: an update is sent to a record only in apply mode, only when the record
\* is a candidate and its fix determination succeeded; each candidate gets at
\* most one update in a call (none after the store has refused one), the update
\* carries the named custom field and no other, and a candidate whose unwrap
\* failed gets no update.
C12_WriteDiscipline ==
    /\ updates # <<>> => make_changes
    /\ Len(updates) <= Len(nbobj_updated) + Len(nbobj_not_updated)
    /\ \A i \in 1..Len(updates) :
           /\ updates[i].nbobj \in Candidates
           /\ InSeq(updates[i].nbobj, nbobj_with_bad_value)
           /\ Cardinality(UpdatesOf(updates[i].nbobj)) = 1
           /\ DOMAIN updates[i].payload = {custom_field_name}
           /\ updates[i].payload[custom_field_name] = updates[i].value
           /\ FixSucceeded(updates[i].nbobj, updates[i].value)
    /\ \A j \in 1..Len(unwraps) :
           ~unwraps[j].status => UpdatesOf(unwraps[j].nbobj) = {}
    /\ \A k \in 1..Len(finished) :
           /\ finished[k].updates # <<>> => make_changes
           /\ \A i \in 1..Len(finished[k].updates) :
                  /\ InSeq(finished[k].updates[i].nbobj, finished[k].candidates)
                  /\ \A h \in 1..Len(finished[k].updates) :
                         finished[k].updates[h].nbobj = finished[k].updates[i].nbobj
                             => h = i

\* C12 witness: a call in apply mode has returned; the store refused the one
\* update sent, which was not sent again, and the other candidate, whose
\* unwrap failed, got no update
C12_Witness ==
    /\ pc = "returned"
    /\ make_changes
    /\ Len(updates) = 1
    /\ ~updates[1].accepted
    /\ Len(nbobj_with_bad_value) = 2
    /\ Len(nbobj_not_updated) = 2
    /\ \E j \in 1..Len(unwraps) :
           /\ ~unwraps[j].status
           /\ unwraps[j].nbobj # updates[1].nbobj
           /\ UpdatesOf(unwraps[j].nbobj) = {}

\* a is a subsequence of b: a is b with some items left out
RECURSIVE IsSubseq(_, _)
IsSubseq(a, b) ==
    IF a = <<>> THEN TRUE
    ELSE IF b = <<>> THEN FALSE
    ELSE IF Head(a) = Head(b) THEN IsSubseq(Tail(a), Tail(b))
    ELSE IsSubseq(a, Tail(b))

\* the place of the record r in the record set
PlaceIn(r) == CHOOSE i \in 1..Len(recordset) : recordset[i] = r

\* the records of seq are in the order of the record set
InInputOrder(seq) ==
    \A i, j \in 1..Len(seq) : i < j => PlaceIn(seq[i]) < PlaceIn(seq[j])

\* C15: the candidate sequence is a subsequence of the record set in its
\* iteration order, and updated and not_updated (while they are built and as
\* returned) are subsequences of the candidate sequence, so two records of the
\* same bucket are in the order they have in the input.
C15_OrderPreserved ==
    /\ IsSubseq(nbobj_with_bad_value, recordset)
    /\ IsSubseq(nbobj_updated, nbobj_with_bad_value)
    /\ IsSubseq(nbobj_not_updated, nbobj_with_bad_value)
    /\ InInputOrder(nbobj_updated)
    /\ InInputOrder(nbobj_not_updated)
    /\ \A k \in 1..Len(finished) :
           /\ IsSubseq(finished[k].candidates, recordset)
           /\ IsSubseq(finished[k].updated, finished[k].candidates)
           /\ IsSubseq(finished[k].not_updated, finished[k].candidates)
           /\ InInputOrder(finished[k].updated)
           /\ InInputOrder(finished[k].not_updated)

\* C15 witness: a call has returned with a bucket that holds two records, the
\* first of them before the second in the record set
C15_Witness ==
    /\ pc = "returned"
    /\ \/ Len(nbobj_updated) >= 2
          /\ PlaceIn(nbobj_updated[1]) < PlaceIn(nbobj_updated[2])
       \/ Len(nbobj_not_updated) >= 2
          /\ PlaceIn(nbobj_not_updated[1]) < PlaceIn(nbobj_not_updated[2])

(***************************************************************************)
(* The report of __main__ (checked under Spec)                             *)
(***************************************************************************)
\* the records that a printed listing names, one for each entry, in order
ListedRecords(body) == [i \in 1..((Len(body) + 1) \div 2) |-> body[2 * i - 1].str_of]

\* the entries of a listing are set apart by the separator
WellSeparated(body) ==
    \A i \in 1..Len(body) : (i % 2 = 0) => body[i] = Separator

\* C16 (as claimed): in verbose mode the listing "Objects Not Updated" is made
\* from not_updated itself: it has one entry for each record of not_updated,
\* in order, and the listing "Objects Updated" has one for each record of
\* updated; making the report ends without an error whatever the two lists
\* are, a not_updated that is not empty included.
C16_VerboseReport ==
    /\ report.pc # "raised"
    /\ (report.pc = "printed" /\ report.verbose) =>
           /\ Len(report.printed) = 2
           /\ report.printed[1].label = "Objects Updated:"
           /\ WellSeparated(report.printed[1].body)
           /\ ListedRecords(report.printed[1].body) = nbobj_updated
           /\ report.printed[2].label = "Objects Not Updated:"
           /\ WellSeparated(report.printed[2].body)
           /\ ListedRecords(report.printed[2].body) = nbobj_not_updated
    /\ (pc = "returned" /\ nbobj_not_updated # <<>> /\ report.pc # "none") =>
           report.pc = "printed"

=============================================================================
